---- MODULE Spec2Model ----
(***************************************************************************)
(* The GDScript generation pipeline: supervisor (planner), code_writer,    *)
(* code_review and file_processor nodes acting on the GodotState, with the *)
(* reducers of state.py applied to every node update, and the filename     *)
(* normaliser of file_deduplication.py.                                    *)
(*                                                                         *)
(* A filename is a sequence of characters.  A "character" is a one-letter  *)
(* string, or one of a few multi-letter tokens (".gd", "Unnamed.gd",       *)
(* "Main.gd", ...) that the code only ever compares as a whole.            *)
(***************************************************************************)
EXTENDS Integers, Sequences, FiniteSets, TLC

VARIABLES
    pc,               \* the node the pipeline runs next (Command goto)
    node,             \* the node that ran last
    plan,             \* the planner's response, fixed for the run
    current_file,     \* GodotState.current_file: <<>> (None) or <<file_def>>
    pending_files,    \* GodotState.pending_files
    generated_code,   \* GodotState.generated_code: filename -> code
    review_status,    \* GodotState.review_status: filename -> status
    detailed_reviews, \* GodotState.detailed_reviews: filename -> issues
    processed_files,  \* GodotState.processed_files
    trace,            \* observations of the last step (history)
    finalized_log,    \* filenames in the order code_review finalized them
    passes,           \* generation passes made for the current work item
    norm_in,          \* normaliser harness: the input string
    norm_out,         \* normaliser harness: the successive results
    graph             \* compiled graph: the nodes triggered, the superstep

vars == <<pc, node, plan, current_file, pending_files, generated_code,
          review_status, detailed_reviews, processed_files, trace,
          finalized_log, passes, norm_in, norm_out, graph>>

pipeVars == <<pc, node, plan, current_file, pending_files, generated_code,
              review_status, detailed_reviews, processed_files, trace,
              finalized_log, passes>>

normVars == <<norm_in, norm_out>>

sideVars == <<normVars, graph>>

(***************************************************************************)
(* Bounds of the model.                                                    *)
(***************************************************************************)
MaxLen == 3

\* the count of generation passes kept for one work item stops at MaxPasses
MaxPasses == 8

(***************************************************************************)
(* file_deduplication.py: FileDedupTracker.normalize_filename              *)
(***************************************************************************)
Whitespace == {" "}

Lower(c) ==
    CASE c = "A" -> "a"
      [] c = "B" -> "b"
      [] c = "C" -> "c"
      [] c = "Unnamed.gd" -> "unnamed.gd"
      [] c = "Main.gd" -> "main.gd"
      [] c = "GameManager.gd" -> "gamemanager.gd"
      [] c = "Unit" -> "unit"
      [] c = "Node" -> "node"
      [] OTHER -> c

LowerStr(s) == [i \in 1..Len(s) |-> Lower(s[i])]

RECURSIVE LStrip(_)
LStrip(s) ==
    IF s # <<>> /\ Head(s) \in Whitespace THEN LStrip(Tail(s)) ELSE s

RECURSIVE RStrip(_)
RStrip(s) ==
    IF s # <<>> /\ s[Len(s)] \in Whitespace
    THEN RStrip(SubSeq(s, 1, Len(s) - 1))
    ELSE s

Strip(s) == RStrip(LStrip(s))

ReplaceBackslash(s) == [i \in 1..Len(s) |-> IF s[i] = "\\" THEN "/" ELSE s[i]]

LastSegment(s) ==
    LET seps == {i \in 1..Len(s) : s[i] = "/"}
    IN  IF seps = {} THEN s
        ELSE LET last == CHOOSE i \in seps : \A j \in seps : j <= i
             IN  SubSeq(s, last + 1, Len(s))

\* Op(x), with x evaluated once
Apply(Op(_), x) == CHOOSE r \in {Op(v) : v \in {x}} : TRUE

normalize_filename(filename) ==
    IF filename = <<>> THEN <<>>
    ELSE Apply(LastSegment,
               Apply(ReplaceBackslash, Apply(Strip, Apply(LowerStr, filename))))

RECURSIVE StringsUpTo(_, _)
StringsUpTo(chars, n) ==
    IF n = 0 THEN {<<>>}
    ELSE LET shorter == StringsUpTo(chars, n - 1)
         IN  shorter \cup {Append(s, c) : s \in shorter, c \in chars}

(***************************************************************************)
(* Values of the pipeline state.                                           *)
(*                                                                         *)
(* A file definition is a Python dict.  keys is the set of keys the dict   *)
(* holds besides "filename"; a key that is absent keeps the default value  *)
(* below, so equal dicts are equal records.  An empty filename stands for  *)
(* a dict without the key; every reader but code_writer, which supplies a  *)
(* default, reads it as the empty name.  kind = "other" is a JSON element  *)
(* that is not an object.                                                  *)
(*                                                                         *)
(* Code is a text, abstracted to what the code reads of it: features, the  *)
(* substrings and regex matches _validate_gdscript tests for, and refs,    *)
(* the names the six patterns of _detect_dependencies extract.  The empty  *)
(* text has neither.                                                       *)
(***************************************************************************)
EmptyMap == [k \in {} |-> {}]

EmptyCode == [features |-> {}, refs |-> {}]

Unnamed == <<"Unnamed.gd">>

MkFile(fn) ==
    [kind |-> "dict", filename |-> fn, keys |-> {}, iteration |-> 1,
     status |-> "", code |-> EmptyCode, previous_code |-> EmptyCode,
     feedback |-> <<>>]

NotADict == [MkFile(<<>>) EXCEPT !.kind = "other"]

WithIteration(f, n) ==
    [f EXCEPT !.keys = @ \cup {"iteration"}, !.iteration = n]

WithStatus(f, st) == [f EXCEPT !.keys = @ \cup {"status"}, !.status = st]

\* current_file.get("iteration", 1)
Iteration(f) == IF "iteration" \in f.keys THEN f.iteration ELSE 1

\* no compiled graph is running
NoGraph == [active |-> {}, step |-> 0, ran |-> {}]

NoTrace ==
    [queue |-> <<>>, selected |-> <<>>, detect |-> <<>>, sent |-> {},
     calls |-> 0, added |-> <<>>, prompt |-> "", finalized |-> <<>>,
     port_failed |-> FALSE, issues |-> <<>>, sent_before |-> <<>>,
     deps |-> <<>>, response |-> [kind |-> "none", files |-> <<>>]]

(***************************************************************************)
(* state.py: the reducers of GodotState.  A field without a reducer        *)
(* (processed_files) takes the value of the update.                        *)
(***************************************************************************)
last_value_reducer(current_val, new_val) == new_val

dict_merge_reducer(current_dict, new_dict) ==
    [k \in DOMAIN current_dict \cup DOMAIN new_dict |->
        IF k \in DOMAIN new_dict THEN new_dict[k] ELSE current_dict[k]]

list_extend_reducer(current_list, new_list) == current_list \o new_list

(***************************************************************************)
(* config.py                                                               *)
(***************************************************************************)
MAX_ITERATIONS_PER_FILE == 5

(***************************************************************************)
(* supervisor.py: SupervisorNode                                           *)
(***************************************************************************)
MAX_INITIAL_FILES == 25

\* lines 138-148 (and 50-55): a mapping with a non-empty, non-sentinel name
ValidDefinition(file) ==
    /\ file.kind = "dict"
    /\ file.filename # <<>>
    /\ file.filename # Unnamed

Prefix(s, n) == IF Len(s) > n THEN SubSeq(s, 1, n) ELSE s

plan_necessary_files_uncapped(response) ==
    SelectSeq(response.files, ValidDefinition)

\* lines 132-162
plan_necessary_files(response) ==
    Prefix(SelectSeq(response.files, ValidDefinition), MAX_INITIAL_FILES)

plan_parses_always(response) == TRUE

\* lines 121-125 and 164-166: a '[...]' is found and json.loads accepts it
plan_parses(response) == response.kind = "array"

Supervisor ==
    /\ pc = "supervisor"
    /\ node' = "supervisor"
    /\ trace' = NoTrace
    /\ UNCHANGED <<plan, finalized_log, sideVars>>
    /\ IF ~plan_parses(plan)
       THEN \* ValueError / JSONDecodeError: the run aborts, no update
            /\ pc' = "aborted"
            /\ UNCHANGED <<current_file, pending_files, generated_code,
                           review_status, detailed_reviews, processed_files,
                           passes>>
       ELSE LET files_to_generate ==
                    SelectSeq(plan_necessary_files(plan), ValidDefinition)
            IN  IF DOMAIN generated_code # {}
                THEN /\ pc' = "scene_setup"
                     /\ UNCHANGED <<current_file, pending_files,
                                    generated_code, review_status,
                                    detailed_reviews, processed_files, passes>>
                ELSE /\ generated_code' =
                            dict_merge_reducer(generated_code, EmptyMap)
                     /\ review_status' =
                            dict_merge_reducer(review_status, EmptyMap)
                     /\ detailed_reviews' =
                            dict_merge_reducer(detailed_reviews, EmptyMap)
                     /\ processed_files' = {}
                     /\ passes' = 0
                     /\ IF files_to_generate # <<>>
                        THEN /\ pc' = "code_writer"
                             /\ current_file' = last_value_reducer(
                                    current_file, <<Head(files_to_generate)>>)
                             /\ pending_files' = list_extend_reducer(
                                    pending_files, Tail(files_to_generate))
                        ELSE /\ pc' = "scene_setup"
                             /\ UNCHANGED <<current_file, pending_files>>

(***************************************************************************)
(* code_writer.py: CodeWriterNode                                          *)
(*                                                                         *)
(* A response of the Content Generation Port is a text with or without a   *)
(* fenced code block; call_claude returns the error text of a failed call  *)
(* as the response.  The prompt is built with str.format, which raises     *)
(* KeyError for a field the template names and the caller does not supply. *)
(***************************************************************************)
\* config.py: the replacement fields of PROMPTS["code_writer_initial"]
InitialTemplateFields ==
    {"game_premise", "filename", "purpose", "details_section",
     "godot_version", "design_constraints"}

\* the keyword arguments of _build_initial_prompt's format call
InitialPromptArguments ==
    {"game_premise", "filename", "purpose", "details_section",
     "godot_version"}

\* config.py: the replacement fields of PROMPTS["code_writer_revision"]
RevisionTemplateFields == {"filename", "purpose", "previous_code", "feedback"}

\* the keyword arguments of _build_revision_prompt's format call
RevisionPromptArguments ==
    {"filename", "purpose", "previous_code", "feedback"}

formats(template_fields, arguments) == template_fields \subseteq arguments

\* lines 42-47: the initial prompt for iteration 1, the revision prompt else
prompt_built(iteration) ==
    IF iteration = 1
    THEN formats(InitialTemplateFields, InitialPromptArguments)
    ELSE formats(RevisionTemplateFields, RevisionPromptArguments)

\* A content is known by the features the reviewer's tests read: "extends"
\* says that the text contains the word, "extends_statement" that it has an
\* extends declaration (which contains the word).
CleanCode ==
    [features |-> {"extends", "extends_statement", "class_name"}, refs |-> {}]

\* the word occurs in a comment only: "# extends the base behaviour"
MentionsExtendsCode == [features |-> {"extends", "class_name"}, refs |-> {}]

NoExtendsCode == [features |-> {"class_name"}, refs |-> {}]

ErrorText == [features |-> {"Error:"}, refs |-> {}]

\* claude_api.py lines 55-57: the text call_claude returns for a failed call
FailureResponse == [fenced |-> FALSE, inside |-> EmptyCode, whole |-> ErrorText]

Responses ==
    { [fenced |-> TRUE, inside |-> CleanCode, whole |-> ErrorText],
      [fenced |-> TRUE, inside |-> NoExtendsCode, whole |-> ErrorText],
      [fenced |-> TRUE, inside |-> MentionsExtendsCode, whole |-> ErrorText],
      [fenced |-> FALSE, inside |-> EmptyCode, whole |-> EmptyCode],
      FailureResponse }

extract_code_fenced_only(response) == response.inside

\* lines 97-109
extract_code_from_response(response) ==
    IF response.fenced THEN response.inside ELSE response.whole

\* line 33: current_file.get("filename", "Unnamed.gd")
written_filename(cf) == IF cf.filename = <<>> THEN Unnamed ELSE cf.filename

written_file_bare(cf, code) ==
    [MkFile(written_filename(cf)) EXCEPT !.code = code,
                                !.iteration = Iteration(cf),
                                !.keys = {"code", "iteration"}]

\* lines 62-67: the item with its content replaced, every other key kept
written_file(cf, code) ==
    [cf EXCEPT !.filename = written_filename(cf),
               !.code = code,
               !.iteration = Iteration(cf),
               !.keys = @ \cup {"code", "iteration"}]

CodeWriter ==
    /\ pc = "code_writer"
    /\ node' = "code_writer"
    /\ UNCHANGED <<plan, pending_files, generated_code, review_status,
                   detailed_reviews, processed_files, finalized_log,
                   sideVars>>
    /\ IF current_file = <<>>
       THEN /\ pc' = "code_review"
            /\ trace' = NoTrace
            /\ UNCHANGED <<current_file, passes>>
       ELSE IF ~prompt_built(Iteration(current_file[1]))
       THEN \* KeyError: the run aborts before the port is called, no update
            /\ pc' = "aborted"
            /\ trace' = NoTrace
            /\ UNCHANGED <<current_file, passes>>
       ELSE \E response \in Responses :
              LET cf == current_file[1]
                  iteration == Iteration(cf)
                  code == extract_code_from_response(response)
              IN  /\ pc' = "code_review"
                  /\ current_file' = last_value_reducer(current_file,
                        <<written_file(cf, code)>>)
                  /\ passes' = IF passes < MaxPasses THEN passes + 1 ELSE passes
                  /\ trace' = [NoTrace EXCEPT
                        !.calls = 1,
                        !.port_failed = (response = FailureResponse),
                        !.prompt = IF iteration = 1 THEN "initial"
                                   ELSE "revision"]

(***************************************************************************)
(* code_review.py: CodeReviewNode                                          *)
(***************************************************************************)
ReusableExempt == {<<"Main.gd">>, <<"GameManager.gd">>}

ReadyBases == {"Unit", "Factory", "Tower", "ResourceNode"}

Check(cond, issue) == IF cond THEN <<issue>> ELSE <<>>

validate_gdscript(code, filename) ==
    LET has(x) == x \in code.features
    IN    Check(~has("extends"), "missing_extends")
       \o Check(has("untyped_var"), "missing_var_type_hints")
       \o Check(has("untyped_param"), "missing_param_type_hints")
       \o Check(filename \notin ReusableExempt /\ ~has("class_name"),
                "missing_class_name")
       \o Check(~has("three_comments") /\ has("over_10_lines"),
                "insufficient_comments")
       \o Check(has("over_15_lines") /\ ~has("signal"), "missing_signals")
       \o Check(has("mixed_indent"), "inconsistent_indentation")
       \o Check(has("TODO") \/ has("PLACEHOLDER"), "todo_left")
       \o Check((\E i \in 1..Len(filename) : filename[i] \in ReadyBases)
                /\ ~has("_ready"), "missing_ready")
       \o Check((has("load(") \/ has("preload("))
                /\ ~(has("if not") \/ has("try") \/ has("assert")),
                "unguarded_load")

Approved == [text |-> "Approved", iteration |-> 0]

needs_revision_unbounded(issues, iteration) == issues # <<>>

\* line 47
needs_revision(issues, iteration) ==
    issues # <<>> /\ iteration < MAX_ITERATIONS_PER_FILE

next_iteration_stuck(iteration) == iteration

next_iteration_skips(iteration) == iteration + 2

\* line 57
next_iteration(iteration) == iteration + 1

NotFullyApproved(iteration) ==
    [text |-> "Not fully approved", iteration |-> iteration]

CodeReview ==
    /\ pc = "code_review"
    /\ node' = "code_review"
    /\ UNCHANGED <<plan, pending_files, processed_files, passes, sideVars>>
    /\ IF current_file = <<>>
       THEN /\ pc' = "file_processor"
            /\ trace' = NoTrace
            /\ UNCHANGED <<current_file, generated_code, review_status,
                           detailed_reviews, finalized_log>>
       ELSE LET cf == current_file[1]
                code_text == cf.code
                filename == cf.filename
                iteration == Iteration(cf)
                issues == validate_gdscript(code_text, filename)
            IN  IF needs_revision(issues, iteration)
                THEN /\ pc' = "code_writer"
                     /\ current_file' = last_value_reducer(current_file,
                           <<[cf EXCEPT
                                !.iteration = next_iteration(iteration),
                                !.previous_code = code_text,
                                !.feedback = issues,
                                !.keys = @ \cup {"iteration", "previous_code",
                                                 "feedback"}]>>)
                     /\ trace' = [NoTrace EXCEPT !.issues = issues]
                     /\ UNCHANGED <<generated_code, review_status,
                                    detailed_reviews, finalized_log>>
                ELSE /\ pc' = "file_processor"
                     /\ generated_code' = dict_merge_reducer(generated_code,
                           [k \in DOMAIN generated_code \cup {filename} |->
                               IF k = filename THEN code_text
                               ELSE generated_code[k]])
                     /\ review_status' = dict_merge_reducer(review_status,
                           [k \in DOMAIN review_status \cup {filename} |->
                               IF k = filename
                               THEN IF issues = <<>> THEN Approved
                                    ELSE NotFullyApproved(iteration)
                               ELSE review_status[k]])
                     /\ detailed_reviews' = dict_merge_reducer(
                           detailed_reviews,
                           [k \in DOMAIN detailed_reviews \cup {filename} |->
                               IF k = filename THEN issues
                               ELSE detailed_reviews[k]])
                     /\ current_file' = last_value_reducer(current_file, <<>>)
                     /\ finalized_log' = Append(finalized_log, filename)
                     /\ trace' = [NoTrace EXCEPT !.finalized = <<filename>>,
                                                 !.issues = issues]

(***************************************************************************)
(* file_deduplication.py: FileDedupTracker                                 *)
(***************************************************************************)
is_duplicate_file(filename, existing_files, pending, processed) ==
    IF filename = <<>> \/ filename = Unnamed THEN TRUE
    ELSE LET norm_filename == normalize_filename(filename)
         IN  IF norm_filename = <<>> THEN TRUE
             ELSE \/ \E e \in existing_files :
                        normalize_filename(e) = norm_filename
                  \/ \E i \in 1..Len(pending) :
                        /\ pending[i].kind = "dict"
                        /\ normalize_filename(pending[i].filename)
                             = norm_filename
                  \/ \E p \in processed :
                        normalize_filename(p) = norm_filename

\* lines 83-104: the entries that reach the seen_filenames test
Named(dep) ==
    dep.kind = "dict" /\ dep.filename # <<>> /\ dep.filename # Unnamed

\* lines 83-114: the loop over dependencies[i..], seen the canonical names
\* of the named entries before i
RECURSIVE dedup_loop(_, _, _, _, _, _)
dedup_loop(dependencies, i, seen, existing_files, pending, processed) ==
    IF i > Len(dependencies) THEN <<>>
    ELSE IF ~Named(dependencies[i])
            \/ normalize_filename(dependencies[i].filename) \in seen
    THEN dedup_loop(dependencies, i + 1, seen, existing_files, pending,
                    processed)
    ELSE (IF is_duplicate_file(dependencies[i].filename, existing_files,
                               pending, processed)
          THEN <<>> ELSE <<dependencies[i]>>)
         \o dedup_loop(dependencies, i + 1,
                seen \cup {normalize_filename(dependencies[i].filename)},
                existing_files, pending, processed)

deduplicate_dependencies_unbatched(dependencies, existing_files, pending, processed) ==
    SelectSeq(dependencies,
              LAMBDA dep : Named(dep)
                           /\ ~is_duplicate_file(dep.filename, existing_files,
                                                 pending, processed))

deduplicate_dependencies(dependencies, existing_files, pending, processed) ==
    dedup_loop(dependencies, 1, {}, existing_files, pending, processed)

(***************************************************************************)
(* config.py: BASIC_GODOT_TYPES                                            *)
(***************************************************************************)
BASIC_GODOT_TYPES ==
    {<<"Node">>, <<"Node2D">>, <<"Sprite2D">>, <<"Control">>, <<"Button">>,
     <<"Label">>, <<"LineEdit">>, <<"TextureButton">>, <<"CanvasLayer">>,
     <<"Camera2D">>, <<"Area2D">>, <<"CollisionShape2D">>,
     <<"RigidBody2D">>, <<"StaticBody2D">>, <<"CharacterBody2D">>,
     <<"Timer">>, <<"AudioStreamPlayer">>, <<"AnimationPlayer">>,
     <<"AnimatedSprite2D">>, <<"Tween">>, <<"Resource">>, <<"Reference">>,
     <<"String">>, <<"Array">>, <<"Dictionary">>, <<"Vector2">>,
     <<"Vector3">>, <<"Rect2">>, <<"Color">>, <<"Transform2D">>,
     <<"Callable">>, <<"Signal">>, <<"PackedScene">>, <<"SceneTree">>,
     <<"Viewport">>, <<"TextureRect">>, <<"Panel">>, <<"TileMap">>,
     <<"Navigation2D">>, <<"NavigationAgent2D">>, <<"ShaderMaterial">>,
     <<"Shader">>, <<"HTTPRequest">>, <<"TCP_Server">>,
     <<"WebSocketClient">>, <<"OS">>, <<"DisplayServer">>, <<"Input">>,
     <<"Engine">>, <<"ProjectSettings">>, <<"ResourceLoader">>, <<"File">>,
     <<"Directory">>, <<"Mutex">>, <<"Thread">>, <<"Semaphore">>,
     <<"VideoStream">>, <<"VideoStreamPlayer">>, <<"PanelContainer">>,
     <<"HBoxContainer">>, <<"VBoxContainer">>, <<"GridContainer">>,
     <<"MarginContainer">>, <<"BoxContainer">>, <<"HSeparator">>,
     <<"VSeparator">>, <<"ScrollContainer">>, <<"Tree">>, <<"ItemList">>,
     <<"Object">>, <<"RefCounted">>, <<"RayCast2D">>, <<"Path2D">>,
     <<"PathFollow2D">>, <<"EditorPlugin">>, <<"EditorScript">>,
     <<"MultiplayerAPI">>, <<"MultiplayerPeer">>,
     <<"NetworkedMultiplayerPeer">>, <<"Position2D">>}

(***************************************************************************)
(* file_processor.py: FileProcessorNode                                    *)
(*                                                                         *)
(* A choice holds what the code does not decide: which of the filtered     *)
(* names survive filtered_deps[:MAX_DEPENDENCIES] (the names come out of a *)
(* Python set, in hash order), the port's response to the dependency       *)
(* request, and whether the in-place pending_files.extend() of line 79 is  *)
(* seen by the state the reducer is then applied to.                       *)
(***************************************************************************)
MAX_DEPENDENCIES == 3

max_files_threshold == 100

MAX_PENDING_FILES == 30

DepFile(dep) == Append(dep, ".gd")

filtered_deps_untracked(code, existing_files, processed, pending) ==
    {dep \in code.refs : Head(dep) # "_" /\ dep \notin BASIC_GODOT_TYPES}

\* lines 256-263
filtered_deps(code, existing_files, processed, pending) ==
    {dep \in code.refs :
        /\ Head(dep) # "_"
        /\ dep \notin BASIC_GODOT_TYPES
        /\ ~is_duplicate_file(DepFile(dep), existing_files, pending,
                              processed)}

Min(a, b) == IF a < b THEN a ELSE b

SentChoicesUncapped(filtered) == {filtered}

\* lines 265-269: any MAX_DEPENDENCIES of the filtered names
SentChoices(filtered) ==
    {S \in SUBSET filtered :
        Cardinality(S) = Min(Cardinality(filtered), MAX_DEPENDENCIES)}

NoChoice == [sent |-> {}, response |-> [kind |-> "none", files |-> <<>>],
             aliased |-> FALSE]

NoDetect == [deps |-> <<>>, calls |-> 0, sent |-> {}]

detect_dependencies_always_calls(source_file, code, existing_files, processed, pending, choice) ==
    IF source_file = <<>> \/ code = EmptyCode THEN NoDetect
    ELSE IF choice.response.kind # "array"
    THEN [deps |-> <<>>, calls |-> 1, sent |-> choice.sent]
    ELSE [deps |-> deduplicate_dependencies(
                      SelectSeq(choice.response.files, ValidDefinition),
                      existing_files, pending, processed),
          calls |-> 1, sent |-> choice.sent]

detect_dependencies(source_file, code, existing_files, processed, pending, choice) ==
    IF source_file = <<>> \/ code = EmptyCode THEN NoDetect
    ELSE IF filtered_deps(code, existing_files, processed, pending) = {}
    THEN NoDetect
    ELSE IF choice.response.kind # "array"
    THEN \* no JSON array in the response, or json.JSONDecodeError
         [deps |-> <<>>, calls |-> 1, sent |-> choice.sent]
    ELSE [deps |-> deduplicate_dependencies(
                      SelectSeq(choice.response.files, ValidDefinition),
                      existing_files, pending, processed),
          calls |-> 1, sent |-> choice.sent]

\* lines 38-46: the completed file whose code is scanned, <<>> if none
newest_file(cur) ==
    IF cur # <<>> /\ cur[1].status = "completed" THEN cur[1].filename
    ELSE <<>>

newest_code_unchecked(cur, gen, procs) ==
    IF newest_file(cur) # <<>> /\ newest_file(cur) \in DOMAIN gen
    THEN gen[newest_file(cur)]
    ELSE EmptyCode

newest_code(cur, gen, procs) ==
    IF /\ newest_file(cur) # <<>>
       /\ newest_file(cur) \in DOMAIN gen
       /\ newest_file(cur) \notin procs
    THEN gen[newest_file(cur)]
    ELSE EmptyCode

\* line 50
Detects(cur, gen, procs) ==
    newest_file(cur) # <<>> /\ newest_code(cur, gen, procs) # EmptyCode

\* lines 118-127: the loop over pending[i..], seen the canonical names kept
RECURSIVE unique_loop(_, _, _)
unique_loop(pending, i, seen) ==
    IF i > Len(pending) THEN <<>>
    ELSE IF pending[i].filename = <<>>
            \/ normalize_filename(pending[i].filename) \in seen
    THEN unique_loop(pending, i + 1, seen)
    ELSE <<pending[i]>>
         \o unique_loop(pending, i + 1,
                seen \cup {normalize_filename(pending[i].filename)})

\* lines 113-133: first occurrence of every canonical name
unique_pending_files(pending) == unique_loop(pending, 1, {})

SelectableUnchecked(file_info, gen, processed) ==
    /\ file_info.kind = "dict"
    /\ file_info.filename # <<>>
    /\ file_info.filename # Unnamed

\* lines 149-167: the entry may be processed next
Selectable(file_info, gen, processed) ==
    /\ file_info.kind = "dict"
    /\ file_info.filename # <<>>
    /\ file_info.filename # Unnamed
    /\ ~is_duplicate_file(file_info.filename, DOMAIN gen, <<>>, processed)

\* line 171
remaining_files(pending, idx) ==
    SubSeq(pending, 1, idx - 1) \o SubSeq(pending, idx + 1, Len(pending))

\* lines 137-140
truncate_pending(pending) == Prefix(pending, MAX_PENDING_FILES)

\* lines 94-140: the queue the selection loop scans
scan_queue(pending) ==
    Apply(truncate_pending,
          Apply(unique_pending_files, SelectSeq(pending, ValidDefinition)))

last_selectable(queue, i, gen, processed) ==
    LET S == {k \in i..Len(queue) : Selectable(queue[k], gen, processed)}
    IN  IF S = {} THEN 0 ELSE CHOOSE k \in S : \A m \in S : m <= k

\* lines 149-172: the index of the entry selected, 0 if there is none
RECURSIVE first_selectable(_, _, _, _)
first_selectable(queue, i, gen, processed) ==
    IF i > Len(queue) THEN 0
    ELSE IF Selectable(queue[i], gen, processed) THEN i
    ELSE first_selectable(queue, i + 1, gen, processed)

file_processor_invoke(cur, pend, gen, procs, choice) ==
    LET runs == Detects(cur, gen, procs)
        processed == IF runs THEN procs \cup {newest_file(cur)} ELSE procs
        decide(det) ==
            LET valid_dependencies == SelectSeq(det.deps, Named)
                extended == pend \o valid_dependencies
                base == IF choice.aliased THEN extended ELSE pend
                obs == [NoTrace EXCEPT
                          !.detect = IF runs THEN <<newest_file(cur)>>
                                     ELSE <<>>,
                          !.sent = det.sent, !.calls = det.calls,
                          !.added = valid_dependencies, !.deps = det.deps,
                          !.response = IF det.calls > 0 THEN choice.response
                                       ELSE NoTrace.response]
                select(queue) ==
                    LET at(idx) ==
                          IF idx # 0
                          THEN [goto |-> "code_writer",
                                current |->
                                   last_value_reducer(cur, <<queue[idx]>>),
                                pending |-> list_extend_reducer(base,
                                   remaining_files(queue, idx)),
                                processed |-> processed,
                                obs |-> [obs EXCEPT
                                           !.queue = queue,
                                           !.selected = <<queue[idx]>>]]
                          ELSE [goto |-> "scene_setup", current |-> cur,
                                pending |-> list_extend_reducer(base, <<>>),
                                processed |-> processed,
                                obs |-> [obs EXCEPT !.queue = queue]]
                    IN  Apply(at, first_selectable(queue, 1, gen, processed))
            IN  IF Cardinality(processed) > max_files_threshold
                THEN [goto |-> "scene_setup", current |-> cur,
                      pending |-> list_extend_reducer(base, <<>>),
                      processed |-> processed, obs |-> obs]
                ELSE Apply(select, scan_queue(extended))
    IN  Apply(decide,
              IF runs
              THEN detect_dependencies(newest_file(cur),
                       newest_code(cur, gen, procs), DOMAIN gen, processed,
                       pend, choice)
              ELSE NoDetect)

DepResponses ==
    { [kind |-> "nojson", files |-> <<>>],
      [kind |-> "malformed", files |-> <<>>],
      [kind |-> "array",
       files |-> <<MkFile(<<"b", ".gd">>), MkFile(<<"e", ".gd">>),
                   MkFile(<<"B", ".gd">>)>>],
      [kind |-> "array",
       files |-> <<MkFile(<<"c", ".gd">>), MkFile(<<"C", ".gd">>),
                   NotADict, MkFile(Unnamed)>>],
      [kind |-> "array",
       files |-> <<MkFile(<<"d", ".gd">>), MkFile(<<"e", ".gd">>),
                   MkFile(<<"f", ".gd">>), MkFile(<<"g", ".gd">>)>>] }

Choices(cur, pend, gen, procs) ==
    IF Detects(cur, gen, procs)
       /\ filtered_deps(newest_code(cur, gen, procs), DOMAIN gen,
                        procs \cup {newest_file(cur)}, pend) # {}
    THEN {[sent |-> S, response |-> r, aliased |-> a] :
            S \in SentChoices(filtered_deps(newest_code(cur, gen, procs),
                      DOMAIN gen, procs \cup {newest_file(cur)}, pend)),
            r \in DepResponses, a \in BOOLEAN}
    ELSE {NoChoice}

FileProcessor ==
    /\ pc = "file_processor"
    /\ node' = "file_processor"
    /\ UNCHANGED <<plan, generated_code, review_status, detailed_reviews,
                   finalized_log, sideVars>>
    /\ \E choice \in Choices(current_file, pending_files, generated_code,
                             processed_files) :
         \E out \in {file_processor_invoke(current_file, pending_files,
                          generated_code, processed_files, choice)} :
             /\ pc' = out.goto
             /\ current_file' = out.current
             /\ pending_files' = out.pending
             /\ processed_files' = out.processed
             /\ passes' = IF out.obs.selected # <<>> THEN 0 ELSE passes
             /\ trace' = out.obs

(***************************************************************************)
(* The pipeline: the run starts at the supervisor with the planner's       *)
(* response, and each node hands over to the node its Command names;       *)
(* scene_setup and the report that follows it are outside the model.       *)
(***************************************************************************)
MaxPlan == 2

\* a definition of the plan carries the keys the planner gives it; one
\* without "iteration" starts at iteration 1
PlanEntries ==
    { WithIteration(MkFile(<<"a">>), 2),
      WithIteration(MkFile(<<"A">>), 2),
      WithIteration(MkFile(<<"b">>), 0),
      WithStatus(WithIteration(MkFile(<<"c">>), 7), "completed"),
      WithIteration(MkFile(<<"d", "/">>), 2),
      MkFile(<<"Node">>),
      MkFile(Unnamed),
      NotADict }

\* more definitions than MAX_INITIAL_FILES: five distinct canonical names
\* among the first 25, a sixth in the last one
BigPlan ==
    [i \in 1..26 |->
        WithIteration(MkFile(IF i = 1 THEN <<"a">>
                             ELSE IF i = 2 THEN <<"b">>
                             ELSE IF i = 3 THEN <<"c">>
                             ELSE IF i = 4 THEN <<"a", "a">>
                             ELSE IF i = 5 THEN <<"a", "b">>
                             ELSE IF i = 26 THEN <<"a", "c">>
                             ELSE <<"A">>), 2)]

PlannerResponses ==
    {[kind |-> "array", files |-> fs] : fs \in StringsUpTo(PlanEntries, MaxPlan)}
    \cup {[kind |-> "array", files |-> BigPlan],
          [kind |-> "nojson", files |-> <<>>],
          [kind |-> "malformed", files |-> <<>>]}

Init ==
    /\ pc = "supervisor"
    /\ node = "none"
    /\ plan \in PlannerResponses
    /\ current_file = <<>>
    /\ pending_files = <<>>
    /\ generated_code = EmptyMap
    /\ review_status = EmptyMap
    /\ detailed_reviews = EmptyMap
    /\ processed_files = {}
    /\ trace = NoTrace
    /\ finalized_log = <<>>
    /\ passes = 0
    /\ norm_in = <<>>
    /\ norm_out = <<>>
    /\ graph = NoGraph

Next ==
    \/ Supervisor
    \/ CodeWriter
    \/ CodeReview
    \/ FileProcessor

Spec == Init /\ [][Next]_vars

\* the scheduler runs the node a Command names; it never stops by itself
FairSpec == Spec /\ WF_vars(Next)

(***************************************************************************)
(* Direct invocation: file_processor, and its _detect_dependencies, called *)
(* on a state the caller builds, as test_pipeline.py calls the nodes.  The *)
(* caller's state can hold what no run from the supervisor reaches: a      *)
(* current file marked "completed", a filled processed set.                *)
(***************************************************************************)
SourceName == <<"x", ".gd">>

Digits == {"0", "1", "2", "3", "4", "5", "6", "7", "8", "9"}

\* max_files_threshold names, none of them the canonical name of a work item
HundredNames == {<<"p", d, e>> : d, e \in Digits}

RefsCode(refs) == [features |-> {"extends", "class_name"}, refs |-> refs]

\* more names than MAX_DEPENDENCIES
ManyRefs == {<<"d">>, <<"e">>, <<"f">>, <<"g">>, <<"h">>}

DirectCodes ==
    { CleanCode,
      RefsCode({<<"b">>, <<"Node">>, <<"_", "p">>}),
      RefsCode({<<"B">>, <<"c">>, <<"x">>}),
      RefsCode(ManyRefs) }

DirectGenerated ==
    {[k \in {SourceName} |-> code] : code \in DirectCodes}
    \cup {[k \in {SourceName, <<"c", ".gd">>} |->
             IF k = SourceName THEN RefsCode({<<"B">>, <<"c">>, <<"x">>})
             ELSE CleanCode],
          [k \in {<<"c", ".gd">>} |-> CleanCode]}

DirectCurrent ==
    {<<>>, <<MkFile(SourceName)>>,
     <<WithStatus(MkFile(SourceName), "completed")>>}

DirectPending ==
    { <<>>,
      <<MkFile(<<"b", ".gd">>)>>,
      <<MkFile(<<"X", ".gd">>), MkFile(<<"a", ".gd">>)>>,
      <<MkFile(<<"C", ".gd">>), NotADict, MkFile(<<"a", ".gd">>)>> }

DirectProcessed ==
    { {}, {<<"b", ".gd">>}, {SourceName}, HundredNames,
      HundredNames \cup {<<"q">>} }

\* the current file of a direct call of code_writer: none, one at the
\* default iteration, one without a filename, one sent back by a review
DirectWriterCurrent ==
    { <<>>,
      <<MkFile(SourceName)>>,
      <<WithIteration(MkFile(<<>>), 2)>>,
      <<[WithIteration(MkFile(SourceName), 3) EXCEPT
            !.previous_code = NoExtendsCode,
            !.feedback = <<"missing_extends">>,
            !.keys = @ \cup {"previous_code", "feedback"}]>> }

\* the arguments of a direct call of _detect_dependencies
DetectSources == {<<>>, SourceName}

DetectCodes == DirectCodes \cup {EmptyCode}

DetectArgument ==
    {<<[MkFile(src) EXCEPT !.code = code]>> :
        src \in DetectSources, code \in DetectCodes}

DetectChoices(source_file, code, existing_files, processed, pending) ==
    IF /\ source_file # <<>>
       /\ code # EmptyCode
       /\ filtered_deps(code, existing_files, processed, pending) # {}
    THEN {[sent |-> S, response |-> r, aliased |-> FALSE] :
            S \in SentChoices(filtered_deps(code, existing_files, processed,
                                            pending)),
            r \in DepResponses}
    ELSE {NoChoice}

\* the caller may call the method a second time with the same arguments
DetectDependencies ==
    /\ pc \in {"detect_dependencies", "detect_twice", "detect_again"}
    /\ pc' = IF pc = "detect_twice" THEN "detect_again"
             ELSE IF pc = "detect_again" THEN "returned_again"
             ELSE "returned"
    /\ node' = "detect_dependencies"
    /\ UNCHANGED <<plan, current_file, pending_files, generated_code,
                   review_status, detailed_reviews, processed_files,
                   finalized_log, passes, sideVars>>
    /\ \E choice \in DetectChoices(current_file[1].filename,
                       current_file[1].code, DOMAIN generated_code,
                       processed_files, pending_files) :
         \E det \in {detect_dependencies(current_file[1].filename,
                         current_file[1].code, DOMAIN generated_code,
                         processed_files, pending_files, choice)} :
             trace' = [NoTrace EXCEPT
                         !.sent = det.sent, !.calls = det.calls,
                         !.sent_before = IF pc = "detect_again"
                                         THEN <<trace.sent>>
                                         ELSE <<>>,
                         !.deps = det.deps,
                         !.response = IF det.calls > 0 THEN choice.response
                                      ELSE NoTrace.response]

DirectInit ==
    /\ \/ /\ \/ pc = "file_processor" /\ current_file \in DirectCurrent
             \/ pc = "detect_dependencies" /\ current_file \in DetectArgument
          /\ pending_files \in DirectPending
          /\ generated_code \in DirectGenerated
          /\ processed_files \in DirectProcessed
       \/ /\ pc = "detect_twice"
          /\ current_file \in DetectArgument
          /\ pending_files = <<>>
          /\ generated_code \in DirectGenerated
          /\ processed_files = {}
       \/ /\ pc = "code_writer"
          /\ current_file \in DirectWriterCurrent
          /\ pending_files \in DirectPending
          /\ generated_code \in DirectGenerated
          /\ processed_files = {}
    /\ node = "none"
    /\ plan = [kind |-> "none", files |-> <<>>]
    /\ review_status = EmptyMap
    /\ detailed_reviews = EmptyMap
    /\ trace = NoTrace
    /\ finalized_log = <<>>
    /\ passes = 0
    /\ norm_in = <<>>
    /\ norm_out = <<>>
    /\ graph = NoGraph

DirectNext ==
    \/ FileProcessor
    \/ DetectDependencies
    \/ CodeWriter

SpecDirect == DirectInit /\ [][DirectNext]_vars

(***************************************************************************)
(* main.py: build_graph.  The compiled graph runs in supersteps: every     *)
(* node triggered in the last superstep runs on the same state, and the    *)
(* updates are then applied through the reducers.  A node triggers the     *)
(* target of its Command goto, of its static edges and of its conditional  *)
(* edge, whose function reads the state with the node's own update         *)
(* applied.  Two nodes may write current_file in one superstep; either     *)
(* write may be the one applied last.  scene_setup and the report change   *)
(* no field of the model.  A Command is a record; its current field is     *)
(* <<>> when the update has no current_file and <<v>> when it has.         *)
(***************************************************************************)
MaxSupersteps == 8

NeedsRevision == [text |-> "needs_revision", iteration |-> 0]

WorkNodes == {"code_writer", "code_review", "file_processor"}

\* code_writer.py lines 25-69
code_writer_command(cur, response) ==
    IF cur = <<>>
    THEN [goto |-> "code_review", current |-> <<>>]
    ELSE IF ~prompt_built(Iteration(cur[1]))
    THEN [goto |-> "KeyError", current |-> <<>>]
    ELSE [goto |-> "code_review",
          current |-> << <<written_file(cur[1],
                             extract_code_from_response(response))>> >>]

\* code_review.py lines 24-90
code_review_command(cur, gen, status, reviews) ==
    IF cur = <<>>
    THEN [goto |-> "file_processor", current |-> <<>>, generated |-> EmptyMap,
          status |-> EmptyMap, reviews |-> EmptyMap, finalized |-> <<>>]
    ELSE LET cf == cur[1]
             issues == validate_gdscript(cf.code, cf.filename)
             put(map, v) == [k \in DOMAIN map \cup {cf.filename} |->
                               IF k = cf.filename THEN v ELSE map[k]]
         IN  IF needs_revision(issues, Iteration(cf))
             THEN [goto |-> "code_writer",
                   current |-> << <<[cf EXCEPT
                        !.iteration = next_iteration(Iteration(cf)),
                        !.previous_code = cf.code,
                        !.feedback = issues,
                        !.keys = @ \cup {"iteration", "previous_code",
                                         "feedback"}]>> >>,
                   generated |-> EmptyMap, status |-> EmptyMap,
                   reviews |-> EmptyMap, finalized |-> <<>>]
             ELSE [goto |-> "file_processor",
                   current |-> << <<>> >>,
                   generated |-> put(gen, cf.code),
                   status |-> put(status,
                                  IF issues = <<>> THEN Approved
                                  ELSE NotFullyApproved(Iteration(cf))),
                   reviews |-> put(reviews, issues),
                   finalized |-> <<cf.filename>>]

\* main.py lines 78-80
code_review_route(status, cur) ==
    IF /\ cur # <<>>
       /\ cur[1].filename \in DOMAIN status
       /\ status[cur[1].filename] = NeedsRevision
    THEN "code_writer" ELSE "file_processor"

\* main.py lines 87-88
file_processor_route(pending) ==
    IF pending # <<>> THEN "code_writer" ELSE "scene_setup"

\* main.py lines 95-97
supervisor_route(pending, cur) ==
    IF pending = <<>> /\ cur = <<>> THEN "scene_setup" ELSE "code_writer"

Written(cmd) == IF cmd.current = <<>> THEN {} ELSE {cmd.current[1]}

GraphSupervisor ==
    /\ graph.active = {"supervisor"}
    /\ node' = "supervisor"
    /\ trace' = NoTrace
    /\ UNCHANGED <<pc, plan, finalized_log, passes, normVars>>
    /\ IF ~plan_parses(plan)
       THEN /\ graph' = [active |-> {}, step |-> graph.step + 1,
                         ran |-> graph.active]
            /\ UNCHANGED <<current_file, pending_files, generated_code,
                           review_status, detailed_reviews, processed_files>>
       ELSE LET files_to_generate ==
                    SelectSeq(plan_necessary_files(plan), ValidDefinition)
                goto == IF DOMAIN generated_code # {} \/ files_to_generate = <<>>
                        THEN "scene_setup" ELSE "code_writer"
            IN  /\ IF DOMAIN generated_code # {}
                   THEN UNCHANGED <<current_file, pending_files,
                                    generated_code, review_status,
                                    detailed_reviews, processed_files>>
                   ELSE /\ generated_code' =
                               dict_merge_reducer(generated_code, EmptyMap)
                        /\ review_status' =
                               dict_merge_reducer(review_status, EmptyMap)
                        /\ detailed_reviews' =
                               dict_merge_reducer(detailed_reviews, EmptyMap)
                        /\ processed_files' = {}
                        /\ IF files_to_generate # <<>>
                           THEN /\ current_file' = last_value_reducer(
                                      current_file,
                                      <<Head(files_to_generate)>>)
                                /\ pending_files' = list_extend_reducer(
                                      pending_files, Tail(files_to_generate))
                           ELSE UNCHANGED <<current_file, pending_files>>
                /\ graph' = [active |-> {goto, "code_writer",
                                         supervisor_route(pending_files',
                                                          current_file')},
                             step |-> graph.step + 1, ran |-> graph.active]

NoResponse == [fenced |-> FALSE, inside |-> EmptyCode, whole |-> EmptyCode]

GraphStep ==
    /\ graph.active # {}
    /\ graph.active \subseteq WorkNodes \cup {"scene_setup"}
    /\ graph.step < MaxSupersteps
    /\ node' = "superstep"
    /\ UNCHANGED <<pc, plan, passes, normVars>>
    /\ \E response \in IF "code_writer" \in graph.active /\ current_file # <<>>
                        THEN Responses ELSE {NoResponse} :
       \E choice \in IF "file_processor" \in graph.active
                      THEN Choices(current_file, pending_files,
                                   generated_code, processed_files)
                      ELSE {NoChoice} :
       \E cw \in {code_writer_command(current_file, response)} :
       \E cr \in {code_review_command(current_file, generated_code,
                                       review_status, detailed_reviews)} :
       \E fp \in {file_processor_invoke(current_file, pending_files,
                                        generated_code, processed_files,
                                        choice)} :
         LET runs(n) == n \in graph.active
             writes ==
                 (IF runs("code_writer") THEN Written(cw) ELSE {})
                 \cup (IF runs("code_review") THEN Written(cr) ELSE {})
                 \cup (IF runs("file_processor") /\ fp.obs.selected # <<>>
                       THEN {fp.current} ELSE {})
             triggered ==
                 (IF runs("code_writer") THEN {cw.goto, "code_review"}
                  ELSE {})
                 \cup (IF runs("code_review")
                       THEN {cr.goto,
                             code_review_route(
                                dict_merge_reducer(review_status, cr.status),
                                IF cr.current = <<>> THEN current_file
                                ELSE cr.current[1])}
                       ELSE {})
                 \cup (IF runs("file_processor")
                       THEN {fp.goto, file_processor_route(fp.pending)}
                       ELSE {})
         IN  IF runs("code_writer") /\ cw.goto = "KeyError"
             THEN \* the exception ends the run; no update is applied
                  /\ UNCHANGED <<current_file, pending_files, processed_files,
                                 generated_code, review_status,
                                 detailed_reviews, finalized_log>>
                  /\ trace' = NoTrace
                  /\ graph' = [active |-> {}, step |-> graph.step + 1,
                               ran |-> graph.active]
             ELSE
             /\ current_file' \in
                    (IF writes = {} THEN {current_file} ELSE writes)
             /\ pending_files' = IF runs("file_processor") THEN fp.pending
                                 ELSE pending_files
             /\ processed_files' = IF runs("file_processor")
                                   THEN fp.processed ELSE processed_files
             /\ generated_code' =
                    IF runs("code_review")
                    THEN dict_merge_reducer(generated_code, cr.generated)
                    ELSE generated_code
             /\ review_status' =
                    IF runs("code_review")
                    THEN dict_merge_reducer(review_status, cr.status)
                    ELSE review_status
             /\ detailed_reviews' =
                    IF runs("code_review")
                    THEN dict_merge_reducer(detailed_reviews, cr.reviews)
                    ELSE detailed_reviews
             /\ finalized_log' = IF runs("code_review")
                                 THEN finalized_log \o cr.finalized
                                 ELSE finalized_log
             /\ trace' = IF runs("file_processor")
                         THEN [fp.obs EXCEPT !.finalized =
                                 IF runs("code_review") THEN cr.finalized
                                 ELSE <<>>]
                         ELSE [NoTrace EXCEPT !.finalized =
                                 IF runs("code_review") THEN cr.finalized
                                 ELSE <<>>]
             /\ graph' = [active |-> triggered, step |-> graph.step + 1,
                          ran |-> graph.active]

GraphPlanEntries ==
    { WithIteration(MkFile(<<"a">>), 2),
      WithIteration(MkFile(<<"A">>), 2),
      MkFile(<<"b">>),
      WithStatus(WithIteration(MkFile(<<"c">>), 2), "completed"),
      MkFile(Unnamed) }

GraphPlannerResponses ==
    {[kind |-> "array", files |-> fs] :
        fs \in StringsUpTo(GraphPlanEntries, MaxPlan)}
    \cup {[kind |-> "nojson", files |-> <<>>]}

GraphInit ==
    /\ pc = "graph"
    /\ node = "none"
    /\ plan \in GraphPlannerResponses
    /\ current_file = <<>>
    /\ pending_files = <<>>
    /\ generated_code = EmptyMap
    /\ review_status = EmptyMap
    /\ detailed_reviews = EmptyMap
    /\ processed_files = {}
    /\ trace = NoTrace
    /\ finalized_log = <<>>
    /\ passes = 0
    /\ norm_in = <<>>
    /\ norm_out = <<>>
    /\ graph = [active |-> {"supervisor"}, step |-> 0, ran |-> {}]

GraphNext ==
    \/ GraphSupervisor
    \/ GraphStep

SpecGraph == GraphInit /\ [][GraphNext]_vars

(***************************************************************************)
(* Properties                                                              *)
(***************************************************************************)
Range(s) == {s[i] : i \in 1..Len(s)}

Canon(names) == {normalize_filename(n) : n \in names}

FinalizedNames == Canon(DOMAIN generated_code)

PendingNames == Canon({f.filename : f \in Range(pending_files)})

ProcessedNames == Canon(processed_files)

Terminal == pc = "scene_setup"

\* C1: after the supervisor step and after every file_processor,
\* code_writer and code_review step, no canonical name is in more than one
\* of the Finalized map, the pending queue and the processed set.
CanonicalNamesDisjoint ==
    node # "none" =>
        /\ FinalizedNames \cap PendingNames = {}
        /\ FinalizedNames \cap ProcessedNames = {}
        /\ PendingNames \cap ProcessedNames = {}

FinalizedOnce ==
    \A i, j \in 1..Len(finalized_log) :
        i # j => normalize_filename(finalized_log[i])
                    # normalize_filename(finalized_log[j])

EntryKept ==
    \A f \in DOMAIN generated_code :
        f \in DOMAIN generated_code' /\ generated_code'[f] = generated_code[f]

IterationWithinMaximum ==
    current_file # <<>> =>
        Iteration(current_file[1]) <= MAX_ITERATIONS_PER_FILE

IterationNonDecreasing ==
    (current_file # <<>> /\ current_file' # <<>> /\ node' # "file_processor")
        => Iteration(current_file'[1]) >= Iteration(current_file[1])

\* C4: the iteration counter of a work item never decreases over its
\* revision history, and the iteration counter of the current work item is
\* at most MAX_ITERATIONS_PER_FILE in every state.
IterationMonotoneAndBounded ==
    []IterationWithinMaximum /\ [][IterationNonDecreasing]_vars

HandedToCodeWriter == pc = "code_writer" /\ current_file # <<>>

\* C6: every work item handed to code_writer is finalized after at most
\* MAX_ITERATIONS_PER_FILE generation passes, whatever the reviewer reports:
\* no item gets more passes, and a finalization follows every hand-over.
FinalizedWithinMaximumPasses ==
    /\ [](passes <= MAX_ITERATIONS_PER_FILE)
    /\ (HandedToCodeWriter ~> (node = "code_review" /\ trace.finalized # <<>>))

\* C7: once code_review has finalized an artifact, its name is in the
\* processed set by the end of the next file_processor step; so after every
\* file_processor step, and in every terminal state, each name of the
\* Finalized map is in the processed set.
FinalizedAreProcessed ==
    (node = "file_processor" \/ Terminal) =>
        DOMAIN generated_code \subseteq processed_files

DiscoveryFollowsFinalization ==
    (node = "code_review" /\ trace.finalized # <<>>
        /\ node' = "file_processor")
        => trace'.detect = trace.finalized

\* C8: the file_processor step that follows the finalization of an artifact
\* runs reference extraction and dependency resolution on that artifact.
DiscoveryAfterEveryFinalization == [][DiscoveryFollowsFinalization]_vars

FirstIndex(q, x) == CHOOSE i \in 1..Len(q) : q[i] = x /\ \A j \in 1..(i - 1) : q[j] # x

SelectsFirstAndDiscardsSkipped ==
    (node' = "file_processor" /\ trace'.selected # <<>>) =>
        LET sel == trace'.selected[1]
            at == FirstIndex(pending_files, sel)
        IN  /\ sel \in Range(pending_files)
            /\ Selectable(sel, generated_code, processed_files)
            /\ \A j \in 1..(at - 1) :
                  /\ ~Selectable(pending_files[j], generated_code,
                                 processed_files)
                  /\ pending_files[j] \notin Range(pending_files')

\* C9: a file_processor step that selects an item selects the first item in
\* queue order that is well-formed and duplicates nothing finalized or
\* processed, and every item skipped ahead of it is absent from the pending
\* queue the step leaves behind.
SelectionDiscardsSkipped == [][SelectsFirstAndDiscardsSkipped]_vars

\* C11: once the number of processed names exceeds max_files_threshold, the
\* file_processor step selects no work item, routes to scene_setup and
\* leaves the pending queue of the state empty, whatever was pending.
BreakerStopsAndEmptiesQueue ==
    [][(node' = "file_processor"
          /\ Cardinality(processed_files') > max_files_threshold)
        => (/\ pc' = "scene_setup"
            /\ trace'.selected = <<>>
            /\ pending_files' = <<>>)]_vars

\* C12: every entry of the pending queue, admitted by the supervisor from
\* the plan or by file_processor from discovery, is a definition with a
\* non-empty name that is not the sentinel and not in BASIC_GODOT_TYPES.
AdmittedEntriesNamedOutsideVocabulary ==
    node # "none" =>
        \A i \in 1..Len(pending_files) :
            /\ ValidDefinition(pending_files[i])
            /\ pending_files[i].filename \notin BASIC_GODOT_TYPES

\* C13: after the supervisor step and after every file_processor step no
\* two items of the pending queue have the same canonical name.
PendingCanonicalNamesDistinct ==
    node \in {"supervisor", "file_processor"} =>
        \A i, j \in 1..Len(pending_files) :
            i # j => normalize_filename(pending_files[i].filename)
                        # normalize_filename(pending_files[j].filename)

\* C14: no name that dependency resolution sends to the Content Generation
\* Port is in BASIC_GODOT_TYPES, begins with an underscore, or names (as
\* <name>.gd, by canonical name) an artifact of the Finalized map, the
\* pending queue or the processed set the step started from.
SentNamesNewAndOutsideVocabulary ==
    [][\A dep \in trace'.sent :
          /\ Head(dep) # "_"
          /\ dep \notin BASIC_GODOT_TYPES
          /\ normalize_filename(DepFile(dep))
                \notin FinalizedNames \cup PendingNames \cup ProcessedNames]_vars

ReferenceToFinalizedNotSent ==
    /\ node = "file_processor"
    /\ trace.detect = <<SourceName>>
    /\ generated_code[SourceName].refs = {<<"B">>, <<"c">>, <<"x">>}
    /\ <<"c", ".gd">> \in DOMAIN generated_code
    /\ trace.sent = {<<"B">>}

\* C15: one dependency resolution sends at most MAX_DEPENDENCIES names to
\* the Content Generation Port, however many candidates the code yields.
SentWithinFanOutCap == Cardinality(trace.sent) <= MAX_DEPENDENCIES

ManyCandidatesCapped ==
    /\ node = "detect_dependencies"
    /\ current_file[1].code = RefsCode(ManyRefs)
    /\ Cardinality(filtered_deps(current_file[1].code, DOMAIN generated_code,
                                 processed_files, pending_files))
          > MAX_DEPENDENCIES
    /\ trace.calls = 1
    /\ Cardinality(trace.sent) = MAX_DEPENDENCIES

\* C16: if no candidate name remains after extraction and filtering, or the
\* source name or the content is empty, dependency resolution returns an
\* empty list and makes no Content Generation Port call.
NoCandidateNoCall ==
    (/\ node = "detect_dependencies"
     /\ \/ current_file[1].filename = <<>>
        \/ current_file[1].code = EmptyCode
        \/ filtered_deps(current_file[1].code, DOMAIN generated_code,
                         processed_files, pending_files) = {})
    => (trace.deps = <<>> /\ trace.calls = 0)

AllCandidatesFilteredNoCall ==
    /\ node = "detect_dependencies"
    /\ current_file[1].filename = SourceName
    /\ current_file[1].code.refs = {<<"B">>, <<"c">>, <<"x">>}
    /\ filtered_deps(current_file[1].code, DOMAIN generated_code,
                     processed_files, pending_files) = {}
    /\ trace.calls = 0
    /\ trace.deps = <<>>

\* C17: if the response to the dependency request holds no JSON array, is
\* malformed JSON or holds an element that is not an object, the resolution
\* returns an empty sequence, and the file_processor step admits nothing.
ParseFailureReturnsEmpty ==
    (/\ trace.calls = 1
     /\ node \in {"detect_dependencies", "file_processor"}
     /\ \/ trace.response.kind # "array"
        \/ \E i \in 1..Len(trace.response.files) :
              trace.response.files[i].kind # "dict")
    => (trace.deps = <<>> /\ trace.added = <<>>)

\* C18: the list dependency resolution returns has pairwise distinct
\* canonical names, none of them the canonical name of an entry of the
\* Finalized map, the pending queue or the processed set, and is a
\* subsequence of the response that keeps, for each canonical name, its
\* first named occurrence.
ResolutionResultDeduplicated ==
    node = "detect_dependencies" =>
        LET out == trace.deps
            resp == trace.response.files
            canon(f) == normalize_filename(f.filename)
        IN  /\ \A i, j \in 1..Len(out) : i # j => canon(out[i]) # canon(out[j])
            /\ \A i \in 1..Len(out) :
                  canon(out[i]) \notin FinalizedNames \cup PendingNames
                                         \cup ProcessedNames
            /\ \E at \in [1..Len(out) -> 1..Len(resp)] :
                  /\ \A i, j \in 1..Len(out) : i < j => at[i] < at[j]
                  /\ \A i \in 1..Len(out) :
                        /\ resp[at[i]] = out[i]
                        /\ \A k \in 1..(at[i] - 1) :
                              ~(Named(resp[k])
                                /\ canon(resp[k]) = canon(out[i]))

TrackedAndRepeatedNamesDropped ==
    /\ node = "detect_dependencies"
    /\ Len(trace.response.files) = 3
    /\ <<"b", ".gd">> \in processed_files
    /\ trace.deps = <<MkFile(<<"e", ".gd">>)>>

\* C19: if the planner's response cannot be parsed into a JSON array, the
\* supervisor step raises and the run aborts with no state update: no
\* current work item is set, nothing is queued, generated or processed.
UnparsablePlanAbortsWithoutUpdate ==
    (plan.kind \in {"nojson", "malformed"} /\ node # "none") =>
        /\ node = "supervisor"
        /\ pc = "aborted"
        /\ current_file = <<>>
        /\ pending_files = <<>>
        /\ generated_code = EmptyMap
        /\ review_status = EmptyMap
        /\ detailed_reviews = EmptyMap
        /\ processed_files = {}

MalformedPlanAborted ==
    /\ plan.kind = "malformed"
    /\ node = "supervisor"
    /\ pc = "aborted"

\* C20: under the routing of the compiled graph one work item is processed
\* at a time: while there is a current work item no file_processor step
\* runs and no other item becomes the current work item.
OneWorkItemAtATime ==
    [][current_file # <<>>
        => /\ "file_processor" \notin graph'.ran
           /\ \/ current_file' = <<>>
              \/ current_file'[1].filename = current_file[1].filename]_vars

WriterFrame ==
    UNCHANGED <<pending_files, processed_files, generated_code,
                review_status, detailed_reviews>>

WriterKeepsFields ==
    LET cf == current_file[1]
        nf == current_file'[1]
    IN  /\ nf.kind = cf.kind
        /\ nf.status = cf.status
        /\ nf.previous_code = cf.previous_code
        /\ nf.feedback = cf.feedback
        /\ nf.iteration = (IF "iteration" \in cf.keys THEN cf.iteration ELSE 1)
        /\ cf.keys \subseteq nf.keys
        /\ nf.keys \ {"code", "iteration"} = cf.keys \ {"code", "iteration"}

TerminationLeavesQueueEmpty ==
    (node = "file_processor" /\ pc = "scene_setup") => pending_files = <<>>

WriterWithoutItemIdle ==
    /\ node = "code_writer"
    /\ current_file = <<>>
    /\ pc = "code_review"
    /\ trace.calls = 0

ProcessedFileNotScannedAgain ==
    [][(/\ pc = "file_processor"
        /\ node' = "file_processor"
        /\ current_file # <<>>
        /\ current_file[1].status = "completed"
        /\ current_file[1].filename \in processed_files)
       => (/\ trace'.detect = <<>>
           /\ trace'.calls = 0
           /\ trace'.sent = {}
           /\ processed_files' = processed_files)]_vars

CompletedProcessedFileSkipped ==
    /\ node = "file_processor"
    /\ current_file # <<>>
    /\ current_file[1].status = "completed"
    /\ current_file[1].filename \in processed_files
    /\ current_file[1].filename \in DOMAIN generated_code
    /\ generated_code[current_file[1].filename].refs # {}
    /\ trace.detect = <<>>
    /\ trace.calls = 0

PlanNames ==
    {normalize_filename(plan.files[i].filename) :
        i \in {j \in 1..Len(plan.files) : ValidDefinition(plan.files[j])}}
    \ {<<>>}

RoutedToSceneSetup == Terminal \/ "scene_setup" \in graph.active

\* C33: if no breaker trips, every well-formed item of the initial plan with
\* a non-empty canonical name is finalized by the time the pipeline routes to
\* scene_setup: the Finalized map then has an entry for its canonical name.
PlanFinalizedAtTermination ==
    (RoutedToSceneSetup
       /\ Cardinality(processed_files) <= max_files_threshold) =>
        PlanNames \subseteq FinalizedNames

\* C32: a single discovery step adds at most MAX_DEPENDENCIES new items to
\* the pending queue, and every item it adds is named after one of the
\* candidate names sent to the Content Generation Port in that step.
DiscoveryAddsOnlySentNamesWithinCap ==
    node = "file_processor" =>
        /\ Len(trace.added) <= MAX_DEPENDENCIES
        /\ \A i \in 1..Len(trace.added) :
              \E name \in trace.sent :
                  normalize_filename(trace.added[i].filename)
                    = normalize_filename(DepFile(name))

\* C31: every work item starts its revision loop at iteration 1 with no
\* previous content and no feedback, whatever extra fields the planner's or
\* the dependency resolver's response objects carried.
WorkItemStartsFresh ==
    (node \in {"supervisor", "file_processor"} /\ pc = "code_writer"
       /\ current_file # <<>>) =>
        /\ Iteration(current_file[1]) = 1
        /\ current_file[1].keys \cap {"code", "previous_code", "feedback"} = {}

\* C30: every work item for which code_writer generates content has a
\* non-empty canonical name that duplicates no name of the Finalized map or
\* the processed set, the first item of the plan included.
GeneratesOnlyForFreshNamedItems ==
    (node = "code_writer" /\ trace.calls = 1) =>
        LET name == normalize_filename(current_file[1].filename)
        IN  /\ name # <<>>
            /\ name \notin FinalizedNames
            /\ name \notin ProcessedNames

\* C29: the supervisor admits at most MAX_INITIAL_FILES work items from the
\* plan, counting the current item and the pending queue, and they are the
\* first valid definitions of the response, in response order.
SupervisorAdmitsFirstValidDefinitions ==
    (node = "supervisor" /\ pc # "aborted") =>
        LET admitted == current_file \o pending_files
            valid == SelectSeq(plan.files, ValidDefinition)
        IN  /\ Len(admitted) <= MAX_INITIAL_FILES
            /\ Len(admitted) = Min(Len(valid), MAX_INITIAL_FILES)
            /\ \A i \in 1..Len(admitted) : admitted[i] = valid[i]

LongPlanCutAtCeiling ==
    /\ node = "supervisor"
    /\ Len(SelectSeq(plan.files, ValidDefinition)) > MAX_INITIAL_FILES
    /\ current_file # <<>>
    /\ Len(pending_files) = MAX_INITIAL_FILES - 1

ReviewStep == pc = "code_review" /\ node' = "code_review" /\ current_file # <<>>

ErrorTextIsContent ==
    (node = "code_writer" /\ trace.port_failed) =>
        /\ pc = "code_review"
        /\ current_file # <<>>
        /\ current_file[1].code = ErrorText

ErrorTextReviewedAndFinalized ==
    (ReviewStep /\ current_file[1].code = ErrorText) =>
        LET cf == current_file[1]
        IN  /\ trace'.issues = validate_gdscript(ErrorText, cf.filename)
            /\ (\/ trace'.issues = <<>>
                \/ Iteration(cf) >= MAX_ITERATIONS_PER_FILE) =>
                  (/\ cf.filename \in DOMAIN generated_code'
                   /\ generated_code'[cf.filename] = ErrorText)

\* C28: a failure of the Content Generation Port during a generation pass
\* does not raise: the error text is the response, becomes the content of the
\* work item, is reviewed like any other content, and is finalized if the
\* review approves it or the iteration maximum is reached.
PortFailureBecomesContent ==
    []ErrorTextIsContent /\ [][ErrorTextReviewedAndFinalized]_vars

ErrorTextFinalized ==
    /\ node = "code_review"
    /\ trace.finalized # <<>>
    /\ generated_code[trace.finalized[1]] = ErrorText

\* C27: for the same content and the same tracking sets any two
\* dependency-resolution invocations send the same set of candidate names to
\* the Content Generation Port, also when more candidates survive filtering
\* than MAX_DEPENDENCIES.
SameCandidatesSentAgain ==
    pc = "returned_again" => trace.sent = trace.sent_before[1]

RevisionEffects ==
    LET cf == current_file[1]
    IN  /\ pc' = "code_writer"
        /\ current_file' # <<>>
        /\ current_file'[1] =
              [cf EXCEPT !.iteration = Iteration(cf) + 1,
                         !.previous_code = cf.code,
                         !.feedback = trace'.issues,
                         !.keys = @ \cup {"iteration", "previous_code",
                                          "feedback"}]
        /\ UNCHANGED <<generated_code, review_status, detailed_reviews,
                       pending_files, processed_files>>

\* C25: when the review reports issues and iteration < MAX_ITERATIONS_PER_FILE
\* the code_review step routes back to code_writer with the iteration
\* increased by exactly one, the previous content set to the content just
\* reviewed and the feedback set to the issues, and writes nothing to the
\* Finalized map, the review status, the pending queue or the processed set.
ReviseBranchEffects ==
    [][(/\ ReviewStep
        /\ trace'.issues # <<>>
        /\ Iteration(current_file[1]) < MAX_ITERATIONS_PER_FILE)
       => RevisionEffects]_vars

SentBackAfterSecondReview ==
    /\ node = "code_review"
    /\ pc = "code_writer"
    /\ current_file # <<>>
    /\ current_file[1].iteration = 4
    /\ current_file[1].feedback = trace.issues
    /\ current_file[1].previous_code = current_file[1].code
    /\ trace.issues # <<>>

FinalizationEffects ==
    LET cf == current_file[1]
        filename == cf.filename
    IN  /\ pc' = "file_processor"
        /\ filename \in DOMAIN generated_code'
        /\ generated_code'[filename] = cf.code
        /\ filename \in DOMAIN detailed_reviews'
        /\ detailed_reviews'[filename] = trace'.issues
        /\ filename \in DOMAIN review_status'
        /\ (review_status'[filename] = Approved) <=> (trace'.issues = <<>>)
        /\ current_file' = <<>>

\* C26: a code_review step finalizes the current work item exactly when the
\* review reports no issues or iteration >= MAX_ITERATIONS_PER_FILE; it then
\* stores the content just reviewed in the Finalized map under the item's
\* name together with the review's issues, records the status 'Approved' if
\* and only if the issues list is empty, and clears the current work item.
FinalizesExactlyWhenApprovedOrAtMaximum ==
    [][ReviewStep =>
         LET finalizes == trace'.finalized = <<current_file[1].filename>>
         IN  /\ finalizes \/ trace'.finalized = <<>>
             /\ finalizes <=>
                   (\/ trace'.issues = <<>>
                    \/ Iteration(current_file[1]) >= MAX_ITERATIONS_PER_FILE)
             /\ finalizes => FinalizationEffects
             /\ ~finalizes => UNCHANGED <<generated_code, review_status,
                                          detailed_reviews>>]_vars

FinalizedAtMaximumWithIssues ==
    /\ node = "code_review"
    /\ trace.finalized # <<>>
    /\ trace.issues # <<>>
    /\ current_file = <<>>
    /\ review_status[trace.finalized[1]] = NotFullyApproved(5)
    /\ detailed_reviews[trace.finalized[1]] = trace.issues

AppendedBehindPending ==
    /\ Len(pending_files') >= Len(pending_files)
    /\ SubSeq(pending_files', 1, Len(pending_files)) = pending_files
    /\ \A i, j \in 1..Len(trace'.queue) :
          (/\ trace'.queue[i] \in Range(trace'.added)
           /\ trace'.queue[i] \notin Range(pending_files)
           /\ trace'.queue[j] \in Range(pending_files)) => j < i

NoEarlierSelectablePending ==
    trace'.selected # <<>> =>
        LET queue == pending_files \o trace'.added
            sel == trace'.selected[1]
        IN  /\ sel \in Range(queue)
            /\ \A j \in 1..(FirstIndex(queue, sel) - 1) :
                  ~Selectable(queue[j], generated_code', processed_files')

\* C24: the pending queue is FIFO with breadth-first expansion: the
\* dependencies a file_processor step discovers are appended behind every
\* item already pending, and the item it selects has no well-formed,
\* non-duplicate item queued before it.
QueueIsFifoWithTailAppend ==
    [][node' = "file_processor" =>
         (AppendedBehindPending /\ NoEarlierSelectablePending)]_vars

OldItemSelectedWhileDependenciesAppended ==
    /\ node = "file_processor"
    /\ trace.added # <<>>
    /\ trace.selected # <<>>
    /\ trace.selected[1] \notin Range(trace.added)
    /\ \E i \in 1..Len(pending_files) :
          pending_files[i] \in Range(trace.added)

EmptyCanonicalNames == {<<>>, <<"/">>, <<" ">>, <<"d", "/">>}

IsDuplicateWhenCanonicalEmpty ==
    \A name \in EmptyCanonicalNames :
        /\ normalize_filename(name) = <<>>
        /\ is_duplicate_file(name, DOMAIN generated_code, pending_files,
                             processed_files)

\* C23: a name whose canonical form is empty is reported as a duplicate by
\* is_duplicate_file whatever the tracking sets hold, and no supervisor or
\* file_processor step leaves an item with such a name in the pending queue.
EmptyCanonicalNameNeverPending ==
    /\ IsDuplicateWhenCanonicalEmpty
    /\ node \in {"supervisor", "file_processor"} =>
          \A i \in 1..Len(pending_files) :
              pending_files[i].kind = "dict" =>
                  normalize_filename(pending_files[i].filename) # <<>>

\* C22: for any content that lacks the extends declaration the reviewer's
\* issues list is non-empty and contains the message of the missing-extends
\* check.
MissingExtendsReported ==
    [][(pc = "code_review" /\ node' = "code_review" /\ current_file # <<>>
          /\ "extends_statement" \notin current_file[1].code.features)
       => "missing_extends" \in Range(trace'.issues)]_vars

\* C21: an item file_processor selects is removed from the pending queue of
\* the state: after the selecting step, and when code_review finalizes the
\* item, no item of that name is in the queue.
SelectedItemLeavesQueue ==
    /\ (node = "file_processor" /\ trace.selected # <<>>) =>
          \A i \in 1..Len(pending_files) :
              pending_files[i].filename # trace.selected[1].filename
    /\ (node = "code_review" /\ trace.finalized # <<>>
           /\ Len(finalized_log) > 1) =>
          \A i \in 1..Len(pending_files) :
              pending_files[i].filename # trace.finalized[1]

\* C10: after every file_processor step the pending queue of the pipeline
\* state holds at most MAX_PENDING_FILES items, the items beyond the first
\* MAX_PENDING_FILES of the deduplicated queue being discarded.
PendingWithinCeiling ==
    node = "file_processor" => Len(pending_files) <= MAX_PENDING_FILES

(***************************************************************************)
(* The normaliser harness: every string over NormChars of length at most   *)
(* MaxLen is normalised, and the result normalised again.                  *)
(***************************************************************************)
NormChars == {"a", "A", " ", "/", "\\"}

IdlePipe ==
    /\ pc = "idle"
    /\ node = "none"
    /\ plan = <<>>
    /\ current_file = <<>>
    /\ pending_files = <<>>
    /\ generated_code = EmptyMap
    /\ review_status = EmptyMap
    /\ detailed_reviews = EmptyMap
    /\ processed_files = {}
    /\ trace = NoTrace
    /\ finalized_log = <<>>
    /\ passes = 0

NormInit ==
    /\ norm_in \in StringsUpTo(NormChars, MaxLen)
    /\ norm_out = <<>>
    /\ graph = NoGraph
    /\ IdlePipe

Normalize ==
    /\ Len(norm_out) < 2
    /\ norm_out' = Append(norm_out,
                          normalize_filename(IF norm_out = <<>> THEN norm_in
                                             ELSE norm_out[Len(norm_out)]))
    /\ UNCHANGED <<norm_in, graph, pipeVars>>

NormNext == Normalize

SpecNorm == NormInit /\ [][NormNext]_vars

\* C5: normalising an already normalised name changes nothing:
\* normalize_filename(normalize_filename(x)) = normalize_filename(x) for
\* every string x, including names with upper-case letters, leading or
\* trailing whitespace and '/' or '\' separators.
NormalizeIdempotent ==
    Len(norm_out) = 2 => norm_out[2] = norm_out[1]

====
